---- MODULE Spec2Model ----
(***************************************************************************)
(* Model of spacepy/poppy.py: the PPro point-process session (__init__,    *)
(* swap, assoc, aa_ci) and the module-level bootstrap estimator boots_ci.  *)
(*                                                                         *)
(* Numbers.  Event times, lags and half-widths are integers.  A           *)
(* percentile is a rational; it is kept as an integer numerator over a     *)
(* fixed scale (100 for prctile_rank's p=(20,80), PScale = 200 for         *)
(* boots_ci's (100-inter)/2), so every comparison is exact.                *)
(*                                                                         *)
(* Optional attributes.  A Python value that may be None is a record with  *)
(* a field "set"; an attribute that may not exist yet (n_assoc,            *)
(* assoc_total, asympt_assoc, ci) likewise.                                *)
(***************************************************************************)
EXTENDS Integers, Sequences, FiniteSets, TLC

VARIABLES process1, process2, lags, winhalf,
          n_assoc, assoc_total, asympt_assoc, ci,
          ret, rng, nreq, bcalls

vars == <<process1, process2, lags, winhalf,
          n_assoc, assoc_total, asympt_assoc, ci, ret, rng, nreq, bcalls>>

session == <<process1, process2, lags, winhalf,
             n_assoc, assoc_total, asympt_assoc, ci>>

(***************************************************************************)
(* Bounds of the model.                                                    *)
(***************************************************************************)
\* event times of a series are drawn from 0..MaxT
MaxT == 2
\* a counts vector handed to boots_ci directly has at most MaxLen entries
MaxLen == 3
\* and its entries are drawn from 0..MaxCount
MaxCount == 1
\* number of bootstrap surrogates n is drawn from 1..MaxBoots
MaxBoots == 2
\* number of states of the global pseudorandom generator
RngMod == 81
\* number of boots_ci calls recorded in one behaviour of SpecSeeded
MaxCalls == 2
\* aa_ci is not started once the generator has served MaxReq requests
MaxReq == 2

(***************************************************************************)
(* Sequences helpers.                                                      *)
(***************************************************************************)
RECURSIVE SeqSum(_)
SeqSum(s) == IF s = <<>> THEN 0 ELSE Head(s) + SeqSum(Tail(s))

RECURSIVE Insert(_, _)
Insert(x, s) ==
    IF s = <<>> THEN <<x>>
    ELSE IF x <= Head(s) THEN <<x>> \o s
    ELSE <<Head(s)>> \o Insert(x, Tail(s))

\* values.sort() inside prctile
RECURSIVE Sort(_)
Sort(s) == IF s = <<>> THEN <<>> ELSE Insert(Head(s), Sort(Tail(s)))

SeqMin(s) == CHOOSE x \in {s[k] : k \in DOMAIN s} : \A k \in DOMAIN s : x <= s[k]
SeqMax(s) == CHOOSE x \in {s[k] : k \in DOMAIN s} : \A k \in DOMAIN s : x >= s[k]

\* All sequences over S of length 0..n
SeqsUpTo(S, n) == UNION {[1..k -> S] : k \in 0..n}

(***************************************************************************)
(* matplotlib.mlab.prctile(x, p), linear interpolation.                    *)
(* The percentile p is pnum/(scale/100) percent; the result is the         *)
(* percentile value times scale.                                           *)
(*   idxs = per/100*(N-1); ai = int(idxs); bi = ai+1; frac = idxs % 1      *)
(*   where bi >= N: ai -= 1, bi -= 1, frac += 1                            *)
(*   return values[ai] + (values[bi]-values[ai])*frac                      *)
(* A negative ai (N = 1) indexes from the end, as a Python index does.     *)
(***************************************************************************)
prctile(x, pnum, scale) ==
    LET values == Sort(x)
        N      == Len(values)
        idxs   == pnum * (N - 1)
        ai0    == idxs \div scale
        frac0  == idxs % scale
        cond   == ai0 + 1 >= N
        ai     == IF cond THEN ai0 - 1 ELSE ai0
        bi     == ai + 1
        frac   == IF cond THEN frac0 + scale ELSE frac0
        va     == values[(ai % N) + 1]
        vb     == values[bi + 1]
    IN  va * scale + (vb - va) * frac

(***************************************************************************)
(* The global pseudorandom generator behind numpy.random.randint.          *)
(* Its state is a number in 0..RngMod-1.  One request for an n_els x n     *)
(* array reads the array off the state, cell (el, i) being the digit of    *)
(* weight n_els^((el-1)*n + (i-1)) of the state written in base n_els      *)
(* (row-major fill), and then moves the generator to its next state.       *)
(***************************************************************************)
Advance(g) == (4 * g + 1) % RngMod

\* randint drawing from a private generator that seeding does not reset:
\* the array also depends on how many requests were served before
randint_unseeded(g, n_els, n) ==
    [el \in 1..n_els |->
        [i \in 1..n |->
            (((g + nreq) % RngMod) \div (n_els ^ ((el - 1) * n + (i - 1)))) % n_els]]

\* ran_el = randint(0, n_els, size=[n_els,n]); entries are 0-based indices
randint(g, n_els, n) ==
    [el \in 1..n_els |->
        [i \in 1..n |-> (g \div (n_els ^ ((el - 1) * n + (i - 1)))) % n_els]]

\* np.random.seed(s), called by whoever wants a repeatable run
seed(s) ==
    /\ rng' = s
    /\ UNCHANGED <<session, ret, nreq, bcalls>>

(***************************************************************************)
(* boots_ci(data, n, inter, func)                                          *)
(***************************************************************************)
\* 100*pden of the percentiles (100.-inter)/2. and inter + perc_low
PScale == 200

\* perc_low = (100.-inter)/2., as a numerator over PScale/100
perc_low(inter) == 100 - inter

\* perc_high = inter + perc_low
perc_high(inter) == 2 * inter + perc_low(inter)

\* the statistics a caller passes as func; aa_ci passes np.add.reduce
Stats == {"sum", "max"}

func_apply(func, x) == IF func = "sum" THEN SeqSum(x) ELSE SeqMax(x)

\* the floor set one too low
enough_two(n_els) == n_els > 1

\* if n_els > 2
enough(n_els) == n_els > 2

\* for el, rec in enumerate(ran_el[:,i]): surr_ser[el] = data_copy[rec]
surr_ser(data, ran_el, i) ==
    [el \in 1..Len(data) |-> data[ran_el[el][i] + 1]]

\* surr_quan[i] = func(surr_ser) for i in range(n)
RECURSIVE surr_quan(_, _, _, _)
surr_quan(data, n, func, ran_el) ==
    IF n = 0 THEN <<>>
    ELSE Append(surr_quan(data, n - 1, func, ran_el),
                func_apply(func, surr_ser(data, ran_el, n)))

\* boots_ci with the two percentiles handed to prctile in the wrong order
boots_ci_swapped(data, n, inter, func, g) ==
    LET n_els == Len(data) IN
    IF enough(n_els)
    THEN LET ran_el == randint(g, n_els, n)
             surr   == surr_quan(data, n, func, ran_el)
         IN  [raised  |-> "",
              ci_low  |-> prctile(surr, perc_high(inter), PScale),
              ci_high |-> prctile(surr, perc_low(inter), PScale),
              surr    |-> surr,
              g       |-> Advance(g),
              req     |-> 1]
    ELSE [raised  |-> "TypeError",
          ci_low  |-> 0,
          ci_high |-> 0,
          surr    |-> <<>>,
          g       |-> g,
          req     |-> 0]

\* The outcome of one call started with the generator in state g:
\* raised /= "" when the call ends in an exception (no pair is returned);
\* ci_low, ci_high are the returned pair times PScale; g is the generator's
\* state when the call ends and req the number of arrays it was asked for;
\* surr is the surrogate distribution of the run.
boots_ci(data, n, inter, func, g) ==
    LET n_els == Len(data) IN
    IF enough(n_els)
    THEN LET ran_el == randint(g, n_els, n)
             surr   == surr_quan(data, n, func, ran_el)
         IN  [raised  |-> "",
              ci_low  |-> prctile(surr, perc_low(inter), PScale),
              ci_high |-> prctile(surr, perc_high(inter), PScale),
              surr    |-> surr,
              g       |-> Advance(g),
              req     |-> 1]
    \* ci_low, ci_high = np.nan : a float cannot be unpacked
    ELSE [raised  |-> "TypeError",
          ci_low  |-> 0,
          ci_high |-> 0,
          surr    |-> <<>>,
          g       |-> g,
          req     |-> 0]

\* A direct call of boots_ci by a caller of the module; the call and its
\* outcome are appended to bcalls.
boots_call(data, n, inter, func) ==
    LET r == boots_ci(data, n, inter, func, rng) IN
    /\ bcalls' = Append(bcalls, [data    |-> data,
                                 n       |-> n,
                                 inter   |-> inter,
                                 func    |-> func,
                                 seed    |-> rng,
                                 raised  |-> r.raised,
                                 ci_low  |-> r.ci_low,
                                 ci_high |-> r.ci_high,
                                 surr    |-> r.surr])
    /\ rng' = r.g
    /\ nreq' = nreq + r.req
    /\ UNCHANGED <<session, ret>>

(***************************************************************************)
(* Python values that may be None, and attributes that may not exist.      *)
(***************************************************************************)
None_seq == [set |-> FALSE, val |-> <<>>]
None_num == [set |-> FALSE, val |-> 0]
Some(v)  == [set |-> TRUE, val |-> v]

\* truth value of a list or None: None and [] are false
truthy_seq(x) == x.set /\ Len(x.val) > 0
\* truth value of a number or None: None and 0 are false
truthy_num(x) == x.set /\ x.val # 0

\* an attribute the object does not have yet
no_n_assoc      == [set |-> FALSE, nrow |-> 0, ncol |-> 0, a |-> [p \in {} |-> 0]]
no_assoc_total  == [set |-> FALSE, val |-> <<>>]
no_asympt_assoc == [set |-> FALSE, nan |-> FALSE, num |-> 0, den |-> 1]
no_ci           == [set |-> FALSE, low |-> <<>>, high |-> <<>>]

\* what the last operation on the session was and how it ended: "None"
\* (normal return), the message assoc returns, or the name of the exception
\* that left the method
Ret(op, result) == [op |-> op, result |-> result]

\* return 'assoc error: attributes lags and winhalf must be populated'
ConfigurationError == "assoc error: attributes lags and winhalf must be populated"

(***************************************************************************)
(* PPro.swap                                                               *)
(***************************************************************************)
swap ==
    /\ process1' = process2
    /\ process2' = process1
    /\ ret' = Ret("swap", "None")
    /\ UNCHANGED <<lags, winhalf, n_assoc, assoc_total, asympt_assoc, ci,
                   rng, nreq, bcalls>>

(***************************************************************************)
(* PPro.assoc                                                              *)
(***************************************************************************)
\* the stored lags preferred to the call-time ones
merge_lags_stored_first(u, stored) == IF truthy_seq(stored) THEN stored ELSE u

\* if u: self.lags = u
merge_lags(u, stored) == IF truthy_seq(u) THEN u ELSE stored
\* if h: self.winhalf = h
merge_winhalf(h, stored) == IF truthy_num(h) THEN h ELSE stored
\* assert self.lags
usable_lags(l) == truthy_seq(l)
\* the half-width left unchecked
usable_winhalf_unchecked(w) == TRUE

\* assert self.winhalf
usable_winhalf(w) == truthy_num(w)

\* t_lower = tp1+lag-self.winhalf
t_lower(tp1, lag, wh) == tp1 + lag - wh
\* the window open at its upper end
t_upper_open(tp1, lag, wh) == tp1 + lag + wh - 1

\* t_upper = tp1+lag+self.winhalf
t_upper(tp1, lag, wh) == tp1 + lag + wh

\* spacepy.toolbox.tOverlap(ts1, ts2), second result only: the indices of
\* the elements of ts2 inside the closed interval [ts1[0], ts1[1]], or None
\* when there is none
tOverlap(ts1, ts2) ==
    LET inds2 == SelectSeq([k \in 1..Len(ts2) |-> k],
                           LAMBDA k : ts1[1] <= ts2[k] /\ ts2[k] <= ts1[2])
    IN  IF Len(inds2) = 0 THEN None_seq ELSE Some(inds2)

\* if inds2 == None: numby = 0  else: numby = len(inds2)
numby(inds2) == IF ~inds2.set THEN 0 ELSE Len(inds2.val)

\* self.n_assoc after the two loops over self.lags and self.process1
count_matrix(p1, p2, lg, wh) ==
    [set  |-> TRUE,
     nrow |-> Len(p1),
     ncol |-> Len(lg),
     a    |-> [p \in (1..Len(p1)) \X (1..Len(lg)) |->
                 numby(tOverlap(<<t_lower(p1[p[1]], lg[p[2]], wh),
                                  t_upper(p1[p[1]], lg[p[2]], wh)>>, p2))]]

\* self.n_assoc[:,j]
column(m, j) == [i \in 1..m.nrow |-> m.a[<<i, j>>]]

\* the last row taken for the column sums
sum_axis0_last(m) ==
    [j \in 1..m.ncol |-> IF m.nrow = 0 THEN 0 ELSE m.a[<<m.nrow, j>>]]

\* np.sum(self.n_assoc, axis=0), columns 1..j
RECURSIVE sum_cols(_, _)
sum_cols(m, j) ==
    IF j = 0 THEN <<>>
    ELSE Append(sum_cols(m, j - 1), SeqSum(column(m, j)))

\* np.sum(self.n_assoc, axis=0)
sum_axis0(m) == sum_cols(m, m.ncol)

\* np.searchsorted(a, v): the number of entries of the sorted a below v
searchsorted(a, v) == Cardinality({k \in DOMAIN a : a[k] < v})

\* mpl.mlab.prctile_rank(x, p=(20,80)): 0 up to the 20th percentile, 2 above
\* the 80th, 1 between
prctile_rank(x) ==
    LET ptiles == <<prctile(x, 20, 100), prctile(x, 80, 100)>>
    IN  [k \in 1..Len(x) |-> searchsorted(ptiles, 100 * x[k])]

\* self.assoc_total[pul==r]
bucket(total, pul, r) ==
    SelectSeq([k \in 1..Len(total) |-> k], LAMBDA k : pul[k] = r)

RECURSIVE sum_at(_, _)
sum_at(total, idx) ==
    IF idx = <<>> THEN 0 ELSE total[Head(idx)] + sum_at(total, Tail(idx))

\* np.mean([np.mean(valsL), np.mean(valsR)]) as the fraction num/den; the
\* mean of an empty bucket is NaN and so is every mean taken over it
asympt(total, lg) ==
    LET pul  == prctile_rank(lg)
        valsL == bucket(total, pul, 0)
        valsR == bucket(total, pul, 2)
    IN  IF Len(valsL) = 0 \/ Len(valsR) = 0
        THEN [set |-> TRUE, nan |-> TRUE, num |-> 0, den |-> 1]
        ELSE [set |-> TRUE, nan |-> FALSE,
              num |-> sum_at(total, valsL) * Len(valsR)
                      + sum_at(total, valsR) * Len(valsL),
              den |-> 2 * Len(valsL) * Len(valsR)]

assoc(u, h) ==
    LET lags1    == merge_lags(u, lags)
        winhalf1 == merge_winhalf(h, winhalf)
    IN
    /\ UNCHANGED <<process1, process2, ci, rng, nreq, bcalls>>
    /\ IF ~usable_lags(lags1)
       THEN \* assert self.lags fails before h is looked at
            /\ lags' = lags1
            /\ ret' = Ret("assoc", ConfigurationError)
            /\ UNCHANGED <<winhalf, n_assoc, assoc_total, asympt_assoc>>
       ELSE IF ~usable_winhalf(winhalf1)
       THEN \* assert self.winhalf fails after self.lags = u
            /\ lags' = lags1
            /\ winhalf' = winhalf1
            /\ ret' = Ret("assoc", ConfigurationError)
            /\ UNCHANGED <<n_assoc, assoc_total, asympt_assoc>>
       ELSE /\ lags' = lags1
            /\ winhalf' = winhalf1
            /\ ret' = Ret("assoc", "None")
            /\ n_assoc' = count_matrix(process1, process2, lags'.val, winhalf'.val)
            /\ assoc_total' = Some(sum_axis0(n_assoc'))
            /\ asympt_assoc' = asympt(assoc_total'.val, lags'.val)

(***************************************************************************)
(* PPro.aa_ci                                                              *)
(***************************************************************************)
\* for i in range(len(self.lags)):
\*     ci_low[i], ci_high[i] = boots_ci(self.n_assoc[:,i], n_boots, inter, aa_fun)
\* from column i on, with the generator in state g and the entries filled
\* so far; "raised" names the exception that ends the loop early
RECURSIVE ci_loop(_, _, _, _, _, _, _)
ci_loop(i, nlags, inter, n_boots, g, low, high) ==
    IF i > nlags
    THEN [raised |-> "", low |-> low, high |-> high, g |-> g]
    ELSE IF ~n_assoc.set
    THEN [raised |-> "AttributeError", low |-> low, high |-> high, g |-> g]
    ELSE IF i > n_assoc.ncol
    THEN [raised |-> "IndexError", low |-> low, high |-> high, g |-> g]
    ELSE LET r == boots_ci(column(n_assoc, i), n_boots, inter, "sum", g) IN
         IF r.raised # ""
         THEN [raised |-> r.raised, low |-> low, high |-> high, g |-> r.g]
         ELSE ci_loop(i + 1, nlags, inter, n_boots, r.g,
                      Append(low, r.ci_low), Append(high, r.ci_high))

\* the number of boots_ci calls of the loop that drew from the generator
ci_requests(r) == Len(r.low)

aa_ci(inter, n_boots) ==
    /\ nreq < MaxReq
    /\ UNCHANGED <<process1, process2, lags, winhalf,
                   n_assoc, assoc_total, asympt_assoc, bcalls>>
    /\ IF ~lags.set
       THEN \* len(None)
            /\ ret' = Ret("aa_ci", "TypeError")
            /\ UNCHANGED <<ci, rng, nreq>>
       ELSE LET r == ci_loop(1, Len(lags.val), inter, n_boots, rng, <<>>, <<>>) IN
            /\ rng' = r.g
            /\ nreq' = nreq + ci_requests(r)
            /\ ret' = Ret("aa_ci", IF r.raised = "" THEN "None" ELSE r.raised)
            /\ ci' = IF r.raised = ""
                     THEN [set |-> TRUE, low |-> r.low, high |-> r.high]
                     ELSE ci

(***************************************************************************)
(* Inputs.                                                                 *)
(***************************************************************************)
\* first series: none, or the times a, a+1, .., b for 0 <= a <= b <= MaxT
Series ==
    {<<>>} \cup {[k \in 1..(b - a + 1) |-> a + k - 1] : a \in 0..MaxT, b \in 0..MaxT}

\* second series: none, a repeated time, two times, every time
Targets == {<<>>, <<0, 0>>, <<1, MaxT>>, [k \in 1..(MaxT + 1) |-> k - 1]}

\* lags: None, [], [0] and [-1,0,1]
LagOpts == {None_seq, Some(<<>>), Some(<<0>>), Some(<<-1, 0, 1>>)}

\* half-widths: None, 0, 1, 2
HalfOpts == {None_num} \cup {Some(w) : w \in 0..2}

\* confidence levels
Inters == {50, 95}

\* confidence levels of the single boots_ci calls, with both ends of (0,100)
AllInters == {1, 50, 99}

\* counts vectors handed to boots_ci directly
CountVectors == SeqsUpTo(0..MaxCount, MaxLen)

\* seeds a caller gives the generator
Seeds == {5, 17, 40}

\* counts vectors of the seeded runs
SeededVectors == {<<0, 1, 2>>, <<2, 0, 0>>, <<1, 2>>}

(***************************************************************************)
(* The session: PPro(process1, process2, lags, winhalf), then any sequence *)
(* of swap, assoc and aa_ci.                                               *)
(***************************************************************************)
Init ==
    /\ process1 \in Series
    /\ process2 \in Targets
    /\ lags \in LagOpts
    /\ winhalf \in HalfOpts
    /\ n_assoc = no_n_assoc
    /\ assoc_total = no_assoc_total
    /\ asympt_assoc = no_asympt_assoc
    /\ ci = no_ci
    /\ ret = Ret("__init__", "None")
    /\ rng = 0
    /\ nreq = 0
    /\ bcalls = <<>>

Next ==
    \/ swap
    \/ \E u \in LagOpts, h \in HalfOpts : assoc(u, h)
    \/ aa_ci(95, MaxBoots)

Spec == Init /\ [][Next]_vars

(***************************************************************************)
(* boots_ci on its own: one call, from any state of the generator.         *)
(***************************************************************************)
NoSession ==
    /\ process1 = <<>>
    /\ process2 = <<>>
    /\ lags = None_seq
    /\ winhalf = None_num
    /\ n_assoc = no_n_assoc
    /\ assoc_total = no_assoc_total
    /\ asympt_assoc = no_asympt_assoc
    /\ ci = no_ci
    /\ ret = Ret("__init__", "None")

InitBoots ==
    /\ NoSession
    /\ rng \in 0..(RngMod - 1)
    /\ nreq = 0
    /\ bcalls = <<>>

NextBoots ==
    \E data \in CountVectors, n \in 1..MaxBoots, inter \in AllInters, func \in Stats :
        /\ Len(bcalls) = 0
        /\ boots_call(data, n, inter, func)

SpecBoots == InitBoots /\ [][NextBoots]_vars

(***************************************************************************)
(* boots_ci called repeatedly by a caller that may seed the generator      *)
(* between calls.                                                          *)
(***************************************************************************)
InitSeeded ==
    /\ NoSession
    /\ rng \in Seeds
    /\ nreq = 0
    /\ bcalls = <<>>

NextSeeded ==
    \/ \E s \in Seeds : seed(s)
    \/ \E data \in SeededVectors, n \in 1..MaxBoots, inter \in Inters :
        /\ Len(bcalls) < MaxCalls
        /\ boots_call(data, n, inter, "sum")

SpecSeeded == InitSeeded /\ [][NextSeeded]_vars

(***************************************************************************)
(* Properties of boots_ci.                                                 *)
(***************************************************************************)
\* the call returned a pair
returned(c) == c.raised = ""

\* C4: boots_ci called with a counts vector of length 0, 1 or 2 ends in an
\* exception and returns no pair, whatever n, inter and func are; called
\* with a longer vector it returns a pair.
C4_TooFewFails ==
    \A k \in DOMAIN bcalls :
        LET c == bcalls[k] IN
        /\ Len(c.data) <= 2 => ~returned(c)
        /\ Len(c.data) > 2 => returned(c)

\* a call on a two-element vector has failed
C4_Witness ==
    \E k \in DOMAIN bcalls :
        /\ Len(bcalls[k].data) = 2
        /\ bcalls[k].raised = "TypeError"

\* C10: with the sum statistic and a pair returned, lower <= upper, both lie
\* between the smallest and the largest surrogate sum of the run, and hence
\* between n_els*min(data) and n_els*max(data).  (Values are times PScale.)
C10_Bounds ==
    \A k \in DOMAIN bcalls :
        LET c == bcalls[k] IN
        (returned(c) /\ c.func = "sum") =>
            /\ c.ci_low <= c.ci_high
            /\ PScale * SeqMin(c.surr) <= c.ci_low
            /\ c.ci_high <= PScale * SeqMax(c.surr)
            /\ PScale * Len(c.data) * SeqMin(c.data) <= c.ci_low
            /\ c.ci_high <= PScale * Len(c.data) * SeqMax(c.data)

\* a run whose surrogate sums differ and whose interval is strictly inside
\* the range of the surrogates
C10_Witness ==
    \E k \in DOMAIN bcalls :
        LET c == bcalls[k] IN
        /\ returned(c) /\ c.func = "sum" /\ c.n >= 2
        /\ PScale * SeqMin(c.surr) < c.ci_low
        /\ c.ci_low < c.ci_high
        /\ c.ci_high < PScale * SeqMax(c.surr)

assoc_ok == ret = Ret("assoc", "None")

UsableLags(x) == x.set /\ x.val # <<>>
UsableHalf(x) == x.set /\ x.val # 0

\* the value assoc is to work with: the call-time one when one is given,
\* else the stored one
MergedLags(u) == IF UsableLags(u) THEN u ELSE lags
MergedHalf(h) == IF UsableHalf(h) THEN h ELSE winhalf

\* the series-2 points t with p1 + lag - wh <= t <= p1 + lag + wh
InWindow(p1, lag, wh, p2) ==
    {k \in DOMAIN p2 : p1 + lag - wh <= p2[k] /\ p2[k] <= p1 + lag + wh}

\* C1: after a successful assoc, cell (i, j) of the count matrix is the
\* number of series-2 points in the closed window of half-width winhalf
\* around process1[i] + lags[j]; a window holding none is stored as 0.
C1_CountMatrix ==
    assoc_ok =>
        /\ n_assoc.set
        /\ n_assoc.nrow = Len(process1)
        /\ n_assoc.ncol = Len(lags.val)
        /\ \A i \in 1..Len(process1), j \in 1..Len(lags.val) :
              n_assoc.a[<<i, j>>] =
                  Cardinality(InWindow(process1[i], lags.val[j], winhalf.val,
                                       process2))

\* a series-2 point exactly winhalf above process1[i] + lags[j] was counted,
\* and another window of the same run is empty
C1_Witness ==
    /\ assoc_ok
    /\ \E i \in 1..Len(process1), j \in 1..Len(lags.val), k \in DOMAIN process2 :
          /\ process2[k] = process1[i] + lags.val[j] + winhalf.val
          /\ n_assoc.a[<<i, j>>] >= 1
    /\ \E i \in 1..Len(process1), j \in 1..Len(lags.val) :
          n_assoc.a[<<i, j>>] = 0

RECURSIVE ColSum(_, _)
ColSum(j, i) == IF i = 0 THEN 0 ELSE n_assoc.a[<<i, j>>] + ColSum(j, i - 1)

\* C2: after a successful assoc every cell of the count matrix is a
\* non-negative integer, the association curve has one entry per lag, and
\* entry j is the sum of column j of the matrix.
C2_CurveIsColumnSum ==
    assoc_ok =>
        /\ \A i \in 1..n_assoc.nrow, j \in 1..n_assoc.ncol :
              n_assoc.a[<<i, j>>] \in Nat
        /\ assoc_total.set
        /\ Len(assoc_total.val) = Len(lags.val)
        /\ \A j \in 1..Len(lags.val) :
              assoc_total.val[j] = ColSum(j, n_assoc.nrow)

\* a column with two non-zero cells in different rows, one of them not the
\* last row
C2_Witness ==
    /\ assoc_ok
    /\ \E j \in 1..n_assoc.ncol, i1, i2 \in 1..n_assoc.nrow :
          /\ i1 < i2
          /\ n_assoc.a[<<i1, j>>] > 0
          /\ n_assoc.a[<<i2, j>>] > 0
          /\ assoc_total.val[j] >= 2

\* C3: an assoc call whose lags or half-width, after the call-time value is
\* merged over the stored one, is None or empty returns the error message
\* and sets none of n_assoc, assoc_total, asympt_assoc.
C3_ConfigurationError ==
    [][\A u \in LagOpts, h \in HalfOpts :
          (/\ ret'.op = "assoc"
           /\ (~UsableLags(MergedLags(u)) \/ ~UsableHalf(MergedHalf(h)))
           /\ assoc(u, h))
          => (/\ ret'.result = ConfigurationError
              /\ UNCHANGED <<n_assoc, assoc_total, asympt_assoc>>)]_vars

\* an assoc call has failed with usable lags and no half-width
C3_Witness ==
    /\ ret = Ret("assoc", ConfigurationError)
    /\ UsableLags(lags)
    /\ ~UsableHalf(winhalf)

\* C6: a successful assoc has worked with the call-time lags when given and
\* the stored lags otherwise, and likewise with the half-width: these are
\* the values it stores and the ones every cell of the matrix is counted
\* with.
C6_CallTimePrecedence ==
    [][\A u \in LagOpts, h \in HalfOpts :
          (ret' = Ret("assoc", "None") /\ assoc(u, h))
          => LET used_lags == MergedLags(u).val
                 used_half == MergedHalf(h).val
             IN  /\ lags' = Some(used_lags)
                 /\ winhalf' = Some(used_half)
                 /\ n_assoc'.ncol = Len(used_lags)
                 /\ \A i \in 1..Len(process1), j \in 1..Len(used_lags) :
                       n_assoc'.a[<<i, j>>] =
                           Cardinality(InWindow(process1[i], used_lags[j],
                                                used_half, process2))]_vars

\* a successful assoc has replaced the lags an earlier aa_ci ran with
C6_Witness ==
    /\ assoc_ok
    /\ ci.set
    /\ Len(ci.low) # Len(lags.val)

\* C9: an assoc call that fails its configuration check leaves the stored
\* lags, half-width, series and derived arrays as they were.
C9_FailureChangesNothing ==
    [][(ret'.op = "assoc" /\ ret'.result = ConfigurationError)
          => UNCHANGED session]_vars

\* C8: every derived array that is present is aligned with the current
\* series and lags.
C8_Aligned ==
    /\ n_assoc.set =>
          /\ n_assoc.nrow = Len(process1)
          /\ lags.set /\ n_assoc.ncol = Len(lags.val)
    /\ assoc_total.set =>
          lags.set /\ Len(assoc_total.val) = Len(lags.val)
    /\ ci.set =>
          /\ lags.set
          /\ Len(ci.low) = Len(lags.val)
          /\ Len(ci.high) = Len(lags.val)

\* some bucket of the 20/80 split of the lags is empty
EmptyBucket(lg) ==
    LET pul == prctile_rank(lg) IN
    \/ \A k \in DOMAIN lg : pul[k] # 0
    \/ \A k \in DOMAIN lg : pul[k] # 2

\* C5: an assoc call that gets past the configuration check with an empty
\* low or high bucket fails with InsufficientDataError and stores no
\* asymptotic association.
C5_EmptyBucketFails ==
    (/\ ret.op = "assoc"
     /\ ret.result # ConfigurationError
     /\ EmptyBucket(lags.val))
    => (/\ ret.result = "InsufficientDataError"
        /\ ~(asympt_assoc.set /\ asympt_assoc.nan))

====
